---- MODULE Spec2Model ----
(***************************************************************************)
(* Account Statement Reconciler (src/proofapp.py): the key-derivation and  *)
(* netting-match pipeline that runs when a statement file is uploaded      *)
(* (lines 89-159, reached once check_password() has let the user in; the   *)
(* login page, the sidebar and the charts are not modelled).               *)
(*                                                                         *)
(* Strings are TLA+ strings (TLC gives them Len, SubSeq and \o).           *)
(* A nullable cell (pandas NaN, Python None) is the empty tuple <<>>; a    *)
(* present value v is the one-element tuple <<v>>.                         *)
(* Amounts are fixed-point integers counting 0.00001; 0.0001 is Unit4 and  *)
(* 0.01 is Unit2 of them, so that round(x, 4) and round(x, 2) both drop    *)
(* digits.                                                                 *)
(***************************************************************************)
EXTENDS Integers, Sequences, FiniteSets, TLC

VARIABLES
    uploaded_file,     \* the file in the uploader, or NaN when there is none
    pc,                \* position of the script run
    df,                \* the table read from the file (line 93)
    df_ob,             \* opening balance rows (line 102/105)
    df_cb,             \* closing balance rows (line 102/105)
    df_transactions,   \* the working copy of the body (lines 102/106-114)
    df_matched,        \* line 119
    df_unmatched,      \* line 120
    output,            \* the two exported sheets (lines 145-151), or NaN
    error,             \* what st.error showed (lines 97, 159), or NaN
    last_run,          \* output and error of the previous run on this file
    row                \* one row under the key functions (KeySpec)

vars == <<uploaded_file, pc, df, df_ob, df_cb, df_transactions, df_matched,
          df_unmatched, output, error, last_run, row>>

-----------------------------------------------------------------------------
(* Nullable cells *)

NaN == <<>>
Some(v) == <<v>>
isna(x) == x = NaN
fillna(x, v) == IF isna(x) THEN Some(v) ELSE x

-----------------------------------------------------------------------------
(* Bounds of the model *)

MaxRows == 3      \* rows of an uploaded statement
MaxWords == 3     \* words of a description under the key functions

(* Units of the fixed-point amounts *)
Unit4 == 10       \* 0.0001, the 4th decimal of grouped_net.round(4)
Unit2 == 1000     \* 0.01, the 2nd decimal of round(..., 2)

-----------------------------------------------------------------------------
(* Characters *)

Lower == "abcdefghijklmnopqrstuvwxyz"
UpperAZ == "ABCDEFGHIJKLMNOPQRSTUVWXYZ"
Digits == "0123456789"
\* the characters a match key can hold, in code point order
CodePoints == "-.0123456789ABCDEFGHIJKLMNOPQRSTUVWXYZ_"

CharAt(s, i) == SubSeq(s, i, i)
Chars(s) == {CharAt(s, i) : i \in 1..Len(s)}
\* position of character c in s
IndexOf(c, s) == CHOOSE i \in 1..Len(s) : CharAt(s, i) = c

DigitSet == Chars(Digits)
IsDigit(c) == c \in DigitSet

OrdOf == [c \in Chars(CodePoints) |-> IndexOf(c, CodePoints)]
Ord(c) == OrdOf[c]

\* str.upper(), one character
UpperOf == [c \in Chars(Lower) |-> CharAt(UpperAZ, IndexOf(c, Lower))]
UpperChar(c) == IF c \in DOMAIN UpperOf THEN UpperOf[c] ELSE c

RECURSIVE UpperFrom(_, _)
UpperFrom(s, i) ==
    IF i > Len(s) THEN "" ELSE UpperChar(CharAt(s, i)) \o UpperFrom(s, i + 1)
\* str(description).upper()
upper(s) == UpperFrom(s, 1)

\* the regex class [A-Z0-9]
TokenChars == Chars(UpperAZ) \cup DigitSet
IsTokenChar(c) == c \in TokenChars

RECURSIVE StrLessFrom(_, _, _)
StrLessFrom(a, b, i) ==
    IF i > Len(a) THEN i <= Len(b)
    ELSE IF i > Len(b) THEN FALSE
    ELSE IF CharAt(a, i) = CharAt(b, i) THEN StrLessFrom(a, b, i + 1)
    ELSE Ord(CharAt(a, i)) < Ord(CharAt(b, i))
\* Python's str < str: by code point, a proper prefix first
StrLess(a, b) == StrLessFrom(a, b, 1)

-----------------------------------------------------------------------------
(* extract_numeric_key: re.search(r'\d{8,}', description) *)

MinKeyDigits == 8

RECURSIVE DigitRunEnd(_, _)
\* the last position of the run of digits that starts at i (i - 1 if none)
DigitRunEnd(s, i) ==
    IF i <= Len(s) /\ IsDigit(CharAt(s, i)) THEN DigitRunEnd(s, i + 1) ELSE i - 1

RECURSIVE SearchDigits(_, _)
\* leftmost match of \d{8,} at or after position i, greedy
SearchDigits(s, i) ==
    IF i > Len(s) THEN NaN
    ELSE LET e == DigitRunEnd(s, i) IN
         IF e - i + 1 >= MinKeyDigits THEN Some(SubSeq(s, i, e))
         ELSE IF e >= i THEN SearchDigits(s, e + 1)
         ELSE SearchDigits(s, i + 1)

extract_numeric_key(description) ==
    IF isna(description) THEN NaN ELSE SearchDigits(description[1], 1)

-----------------------------------------------------------------------------
(* extract_text_key *)

stopwords == {"THE", "AND", "OR", "A", "AN", "BUT", "OF", "TO", "FOR", "WITH",
              "ON", "FROM", "REVERSAL", "REF", "TRF", "PAYMENT", "PAID"}
MinWordLen == 2       \* len(word) > 2
MaxKeywords == 3      \* unique_keywords[:3]

RECURSIVE FindAllFrom(_, _, _)
\* re.findall(r'[A-Z0-9]+', s): the maximal runs, left to right;
\* cur is the run being read
FindAllFrom(s, i, cur) ==
    IF i > Len(s) THEN (IF cur = "" THEN <<>> ELSE <<cur>>)
    ELSE IF IsTokenChar(CharAt(s, i)) THEN FindAllFrom(s, i + 1, cur \o CharAt(s, i))
    ELSE (IF cur = "" THEN <<>> ELSE <<cur>>) \o FindAllFrom(s, i + 1, "")
findall(s) == FindAllFrom(s, 1, "")

RECURSIVE sorted(_)
\* sorted(list(S)) of a set of strings
sorted(S) ==
    IF S = {} THEN <<>>
    ELSE LET m == CHOOSE x \in S : \A y \in S : x = y \/ StrLess(x, y)
         IN <<m>> \o sorted(S \ {m})

RECURSIVE join(_)
\* ''.join(seq)
join(seq) == IF seq = <<>> THEN "" ELSE Head(seq) \o join(Tail(seq))

\* Keywords with the length test alone: stopwords are kept
KeywordsKeepStopwords(words) == SelectSeq(words, LAMBDA w : Len(w) > MinWordLen)

\* keywords = [word for word in words if word not in stopwords and len(word) > 2]
Keywords(words) ==
    SelectSeq(words, LAMBDA w : w \notin stopwords /\ Len(w) > MinWordLen)

Min(a, b) == IF a < b THEN a ELSE b

extract_text_key(description) ==
    IF isna(description) THEN ""
    ELSE LET words == findall(upper(description[1]))
             keywords == Keywords(words)
             unique_keywords == sorted({keywords[i] : i \in DOMAIN keywords})
         IN  IF unique_keywords # <<>>
             THEN join(SubSeq(unique_keywords, 1, Min(MaxKeywords, Len(unique_keywords))))
             ELSE ""

-----------------------------------------------------------------------------
(* Numbers: round() and the text of a float *)

Abs(x) == IF x < 0 THEN -x ELSE x

\* round(x, d) where unit is 10^-d: the nearest multiple of unit, a tie to
\* the even one.  (On a binary float a decimal tie such as 0.005 is decided
\* by the float's exact value; the amounts below are never on a tie.)
Round(x, unit) ==
    LET a == Abs(x)
        q == a \div unit
        r == a % unit
        n == IF 2 * r > unit \/ (2 * r = unit /\ q % 2 = 1) THEN q + 1 ELSE q
    IN  IF x < 0 THEN -(n * unit) ELSE n * unit

\* str() of a float that is a whole number of cents: '1000.0', '12.5',
\* '0.25', and '-0.0' for a negative number that rounded to zero
FloatStr(negative, cents) ==
    LET f == cents % 100
        frac == IF f % 10 = 0 THEN ToString(f \div 10)
                ELSE ToString(f \div 10) \o ToString(f % 10)
    IN  (IF negative THEN "-" ELSE "") \o ToString(cents \div 100) \o "." \o frac

\* f"{round(x, 2)}"
Round2Str(x) == FloatStr(x < 0, Abs(Round(x, Unit2)) \div Unit2)

-----------------------------------------------------------------------------
(* extract_match_key *)

\* extract_match_key with abs() in the unkeyed branch too
extract_match_key_abs(r) ==
    IF r.Match_Key_Ref # NaN THEN r.Match_Key_Ref[1]
    ELSE LET text_key == r.Match_Key_Text IN
         IF text_key # "" THEN text_key \o "_" \o Round2Str(Abs(r.Net_Value))
         ELSE "NO_KEY_VALUE_" \o Round2Str(Abs(r.Net_Value))

\* extract_match_key with the signed value in the text branch
extract_match_key_signed(r) ==
    IF r.Match_Key_Ref # NaN THEN r.Match_Key_Ref[1]
    ELSE LET text_key == r.Match_Key_Text IN
         IF text_key # "" THEN text_key \o "_" \o Round2Str(r.Net_Value)
         ELSE "NO_KEY_VALUE_" \o Round2Str(r.Net_Value)

extract_match_key(r) ==
    IF r.Match_Key_Ref # NaN THEN r.Match_Key_Ref[1]
    ELSE LET text_key == r.Match_Key_Text IN
         IF text_key # "" THEN text_key \o "_" \o Round2Str(Abs(r.Net_Value))
         ELSE "NO_KEY_VALUE_" \o Round2Str(r.Net_Value)

-----------------------------------------------------------------------------
(* The statements that can be uploaded *)

required_cols == <<"Date", "Reference", "Description", "Value", "Deposit",
                   "Withdrawal", "Balance">>
RequiredSet == {required_cols[i] : i \in DOMAIN required_cols}

\* The cells of a statement row that the pipeline reads.  Date, Reference,
\* Value and Balance are carried from the input to the sheets untouched and
\* are not modelled.  12.50 is 1250000, 0.004 is 400, 0.00004 is 4.
StatementRows ==
    { [Description |-> NaN,                       Deposit |-> NaN,           Withdrawal |-> NaN],
      [Description |-> Some("Rent"),              Deposit |-> NaN,           Withdrawal |-> NaN],
      [Description |-> Some("Rent"),              Deposit |-> Some(1250000), Withdrawal |-> NaN],
      [Description |-> Some("rent paid"),         Deposit |-> NaN,           Withdrawal |-> Some(1250000)],
      [Description |-> Some("Rent"),              Deposit |-> Some(1250400), Withdrawal |-> NaN],
      [Description |-> Some("Rent"),              Deposit |-> Some(400),     Withdrawal |-> NaN],
      [Description |-> Some("Rent"),              Deposit |-> Some(4),       Withdrawal |-> NaN],
      [Description |-> Some("Rent"),              Deposit |-> Some(1250000), Withdrawal |-> Some(1250000)],
      [Description |-> Some("REVERSAL 99999999"), Deposit |-> Some(1250000), Withdrawal |-> NaN],
      [Description |-> Some("REVERSAL 99999999"), Deposit |-> NaN,           Withdrawal |-> Some(1250000)],
      [Description |-> NaN,                       Deposit |-> Some(1250000), Withdrawal |-> NaN] }

SeqsUpTo(S, n) == UNION {[1..k -> S] : k \in 0..n}

\* A file with every required column holds any statement of up to MaxRows
\* rows; a file that lacks a column holds at most one row.
Files ==
    {[columns |-> RequiredSet, rows |-> t] : t \in SeqsUpTo(StatementRows, MaxRows)}
    \cup {[columns |-> c, rows |-> t] :
             c \in (SUBSET RequiredSet) \ {RequiredSet}, t \in SeqsUpTo(StatementRows, 1)}

-----------------------------------------------------------------------------
(* pd.read_excel, line 93 *)

\* the frame of a sheet: its rows under a RangeIndex 0, 1, ...
DataFrame(f) ==
    [columns |-> f.columns,
     rows |-> [i \in DOMAIN f.rows |->
                 [idx |-> i - 1, Description |-> f.rows[i].Description,
                  Deposit |-> f.rows[i].Deposit, Withdrawal |-> f.rows[i].Withdrawal]]]

\* parse_dates=['Date'] makes the parser raise when the sheet has no Date column
parse_dates_ok(f) == "Date" \in f.columns

\* the column check with any() for all()
has_required_cols_any(columns) == \E i \in DOMAIN required_cols : required_cols[i] \in columns

(* the column check, line 96 *)
has_required_cols(columns) == \A i \in DOMAIN required_cols : required_cols[i] \in columns

-----------------------------------------------------------------------------
(* Segmentation, lines 100-106 *)

is_balance_row(r) == isna(r.Deposit) /\ isna(r.Withdrawal)

\* a slice that takes its end position too
iloc_inclusive(rows, a, b) == SubSeq(rows, a + 1, b + 1)

\* df.iloc[a : b] of a frame with a RangeIndex: positions a .. b-1, counted from 0
iloc(rows, a, b) == SubSeq(rows, a + 1, b)

Segmenter(rows) ==
    LET balance_rows == SelectSeq(rows, is_balance_row) IN
    IF balance_rows = <<>>
    THEN [df_transactions |-> rows, df_ob |-> <<>>, df_cb |-> <<>>]
    ELSE LET idx_ob == balance_rows[1].idx
             idx_cb == balance_rows[Len(balance_rows)].idx
         IN  [df_ob |-> SelectSeq(rows, LAMBDA r : r.idx = idx_ob),
              df_cb |-> SelectSeq(rows, LAMBDA r : r.idx = idx_cb),
              df_transactions |-> iloc(rows, idx_ob + 1, idx_cb)]

-----------------------------------------------------------------------------
(* The derived columns, lines 108-114 *)

derive(r) ==
    LET ref == extract_numeric_key(r.Description)
        text == extract_text_key(r.Description)
        dep == fillna(r.Deposit, 0)
        wd == fillna(r.Withdrawal, 0)
        net == dep[1] - wd[1]
        keyed == [Match_Key_Ref |-> ref, Match_Key_Text |-> text, Net_Value |-> net]
    IN  [idx |-> r.idx, Description |-> r.Description, Deposit |-> dep,
         Withdrawal |-> wd, Match_Key_Ref |-> ref, Match_Key_Text |-> text,
         Net_Value |-> net, Amount |-> Some(net),
         Match_Key |-> extract_match_key(keyed)]

Idx(rows) == {rows[i].idx : i \in DOMAIN rows}

\* df_transactions as a view of df: the zero-filling writes through to df
InputAfterDeriveInPlace(d, trans) ==
    [d EXCEPT !.rows = [i \in DOMAIN d.rows |->
        IF d.rows[i].idx \in Idx(trans)
        THEN [d.rows[i] EXCEPT !.Deposit = fillna(@, 0), !.Withdrawal = fillna(@, 0)]
        ELSE d.rows[i]]]

\* df_transactions is a .copy() of df (lines 102, 106): the assignments of
\* lines 108-114 leave the cells of df as they were
InputAfterDerive(d, trans) == d

-----------------------------------------------------------------------------
(* Grouping, lines 116-120 *)

RECURSIVE SumNet(_)
SumNet(rows) == IF rows = <<>> THEN 0 ELSE Head(rows).Net_Value + SumNet(Tail(rows))

\* df_transactions.groupby('Match_Key')['Net_Value'].sum()
grouped_net(trans) ==
    [k \in {trans[i].Match_Key : i \in DOMAIN trans} |->
        SumNet(SelectSeq(trans, LAMBDA r : r.Match_Key = k))]

\* matched_keys without the rounding: the sum compared with zero as it is
matched_keys_exact(trans) ==
    LET g == grouped_net(trans) IN {k \in DOMAIN g : g[k] = 0}

\* matched_keys that takes a group of two rows or more only
matched_keys_pairs(trans) ==
    LET g == grouped_net(trans) IN
    {k \in DOMAIN g : /\ Round(g[k], Unit4) = 0
                      /\ Len(SelectSeq(trans, LAMBDA r : r.Match_Key = k)) > 1}

\* grouped_net[grouped_net.round(4) == 0].index
matched_keys(trans) ==
    LET g == grouped_net(trans) IN {k \in DOMAIN g : Round(g[k], Unit4) = 0}

Matched(trans) ==
    LET keys == matched_keys(trans) IN SelectSeq(trans, LAMBDA r : r.Match_Key \in keys)

\* the unmatched rows taken by their own net value, not by their group
UnmatchedByNet(trans) == SelectSeq(trans, LAMBDA r : Round(r.Net_Value, Unit4) # 0)

Unmatched(trans) ==
    LET keys == matched_keys(trans) IN SelectSeq(trans, LAMBDA r : r.Match_Key \notin keys)

-----------------------------------------------------------------------------
(* Export, lines 144-146 *)

\* [final_cols] of a row; a balance row has no Amount cell, concat leaves NaN
final_cols(r) ==
    [idx |-> r.idx, Description |-> r.Description, Deposit |-> r.Deposit,
     Withdrawal |-> r.Withdrawal,
     Amount |-> IF "Amount" \in DOMAIN r THEN r.Amount ELSE NaN]

RECURSIVE InsertByKey(_, _)
\* r put into the sorted rows before the first row of a greater key
InsertByKey(rows, r) ==
    IF rows = <<>> THEN <<r>>
    ELSE IF StrLess(r.Match_Key, Head(rows).Match_Key) THEN <<r>> \o rows
    ELSE <<Head(rows)>> \o InsertByKey(Tail(rows), r)

RECURSIVE sort_values(_)
\* sort_values(by='Match_Key'): a fixed function of the frame; for the fewer
\* than 16 rows of the model numpy's sort is an insertion sort
sort_values(rows) ==
    IF rows = <<>> THEN <<>>
    ELSE InsertByKey(sort_values(SubSeq(rows, 1, Len(rows) - 1)), rows[Len(rows)])

Project(rows) == [i \in DOMAIN rows |-> final_cols(rows[i])]

\* the closing balance row put right after the opening one
df_unmatched_out_balances_first(ob, unmatched, cb) == Project(ob \o cb \o unmatched)

df_unmatched_out(ob, unmatched, cb) == Project(ob \o unmatched \o cb)

df_matched_out(matched) == Project(sort_values(matched))

-----------------------------------------------------------------------------
(* The script run *)

Init ==
    /\ uploaded_file = NaN
    /\ pc = "idle"
    /\ df = NaN
    /\ df_ob = NaN
    /\ df_cb = NaN
    /\ df_transactions = NaN
    /\ df_matched = NaN
    /\ df_unmatched = NaN
    /\ output = NaN
    /\ error = NaN
    /\ last_run = NaN
    /\ row = NaN

Fresh ==
    /\ df' = NaN
    /\ df_ob' = NaN
    /\ df_cb' = NaN
    /\ df_transactions' = NaN
    /\ df_matched' = NaN
    /\ df_unmatched' = NaN
    /\ output' = NaN
    /\ error' = NaN

Finished == pc \in {"done", "error"}

\* a file is dropped on the empty uploader (line 89); the script runs from
\* the top
Upload ==
    /\ pc = "idle"
    /\ \E f \in Files : uploaded_file' = Some(f)
    /\ pc' = "read"
    /\ last_run' = NaN
    /\ Fresh
    /\ UNCHANGED row

\* any later interaction runs the script again on the file still in the uploader
Rerun ==
    /\ Finished
    /\ pc' = "read"
    /\ last_run' = Some([output |-> output, error |-> error])
    /\ Fresh
    /\ UNCHANGED <<uploaded_file, row>>

\* the file is taken out of the uploader: line 91 skips the run
Clear ==
    /\ Finished
    /\ uploaded_file' = NaN
    /\ pc' = "idle"
    /\ last_run' = NaN
    /\ Fresh
    /\ UNCHANGED row

\* line 93; an exception goes to line 158
ReadExcel ==
    /\ pc = "read"
    /\ IF parse_dates_ok(uploaded_file[1])
       THEN /\ df' = Some(DataFrame(uploaded_file[1]))
            /\ pc' = "check"
            /\ UNCHANGED error
       ELSE /\ error' = Some([message |-> "An error occurred", names |-> {"Date"}])
            /\ pc' = "error"
            /\ UNCHANGED df
    /\ UNCHANGED <<uploaded_file, df_ob, df_cb, df_transactions, df_matched,
                   df_unmatched, output, last_run, row>>

\* lines 94-98
CheckColumns ==
    /\ pc = "check"
    /\ IF has_required_cols(df[1].columns)
       THEN /\ pc' = "segment"
            /\ UNCHANGED error
       ELSE /\ error' = Some([message |-> "Column Mismatch", names |-> RequiredSet])
            /\ pc' = "error"
    /\ UNCHANGED <<uploaded_file, df, df_ob, df_cb, df_transactions, df_matched,
                   df_unmatched, output, last_run, row>>

\* lines 100-106
Segment ==
    /\ pc = "segment"
    /\ LET s == Segmenter(df[1].rows) IN
         /\ df_ob' = Some(s.df_ob)
         /\ df_cb' = Some(s.df_cb)
         /\ df_transactions' = Some(s.df_transactions)
    /\ pc' = "keys"
    /\ UNCHANGED <<uploaded_file, df, df_matched, df_unmatched, output, error,
                   last_run, row>>

\* lines 108-114.  On a frame without rows, apply(axis=1) of line 114 returns
\* a frame, not a column, and assigning it raises: the run ends at line 158.
DeriveKeys ==
    /\ pc = "keys"
    /\ IF df_transactions[1] = <<>>
       THEN /\ error' = Some([message |-> "An error occurred", names |-> {}])
            /\ pc' = "error"
            /\ UNCHANGED <<df, df_transactions>>
       ELSE /\ df_transactions' =
                 Some([i \in DOMAIN df_transactions[1] |-> derive(df_transactions[1][i])])
            /\ df' = Some(InputAfterDerive(df[1], df_transactions[1]))
            /\ pc' = "group"
            /\ UNCHANGED error
    /\ UNCHANGED <<uploaded_file, df_ob, df_cb, df_matched, df_unmatched, output,
                   last_run, row>>

\* lines 116-120
Group ==
    /\ pc = "group"
    /\ df_matched' = Some(Matched(df_transactions[1]))
    /\ df_unmatched' = Some(Unmatched(df_transactions[1]))
    /\ pc' = "export"
    /\ UNCHANGED <<uploaded_file, df, df_ob, df_cb, df_transactions, output, error,
                   last_run, row>>

\* lines 144-151
Export ==
    /\ pc = "export"
    /\ output' = Some([unmatched |-> df_unmatched_out(df_ob[1], df_unmatched[1], df_cb[1]),
                       matched |-> df_matched_out(df_matched[1])])
    /\ pc' = "done"
    /\ UNCHANGED <<uploaded_file, df, df_ob, df_cb, df_transactions, df_matched,
                   df_unmatched, error, last_run, row>>

Next ==
    \/ Upload
    \/ Rerun
    \/ Clear
    \/ ReadExcel
    \/ CheckColumns
    \/ Segment
    \/ DeriveKeys
    \/ Group
    \/ Export

Spec == Init /\ [][Next]_vars

-----------------------------------------------------------------------------
(* The key functions on one row: lines 108, 109 and 114 applied to a row    *)
(* whose description and net value are drawn from the sets below.           *)

Vocabulary == {"Office", "rent", "for", "March", "b2b-x9", "Inv/Fee", "12345678"}

\* 0, 0.004, 12.50, 12.504 and their negatives
NetValues == {0, 400, -400, 1250000, -1250000, 1250400, -1250400}

RECURSIVE JoinWords(_)
\* the words with one space between them
JoinWords(w) ==
    IF w = <<>> THEN ""
    ELSE IF Len(w) = 1 THEN w[1]
    ELSE w[1] \o " " \o JoinWords(Tail(w))

KeyRow(w, d, n) ==
    [words |-> w, Description |-> d, Net_Value |-> n,
     Match_Key_Ref |-> NaN, Match_Key_Text |-> "", Match_Key |-> ""]

KeyRows ==
    {KeyRow(w, Some(JoinWords(w)), n) : w \in SeqsUpTo(Vocabulary, MaxWords), n \in NetValues}
    \cup {KeyRow(<<>>, NaN, n) : n \in NetValues}

KeyInit ==
    /\ pc = "row"
    /\ row \in {Some(r) : r \in KeyRows}
    /\ uploaded_file = NaN
    /\ df = NaN
    /\ df_ob = NaN
    /\ df_cb = NaN
    /\ df_transactions = NaN
    /\ df_matched = NaN
    /\ df_unmatched = NaN
    /\ output = NaN
    /\ error = NaN
    /\ last_run = NaN

KeyFrame ==
    UNCHANGED <<uploaded_file, df, df_ob, df_cb, df_transactions, df_matched,
                df_unmatched, output, error, last_run>>

\* line 108
ApplyNumericKey ==
    /\ pc = "row"
    /\ row' = Some([row[1] EXCEPT !.Match_Key_Ref = extract_numeric_key(row[1].Description)])
    /\ pc' = "ref"
    /\ KeyFrame

\* line 109
ApplyTextKey ==
    /\ pc = "ref"
    /\ row' = Some([row[1] EXCEPT !.Match_Key_Text = extract_text_key(row[1].Description)])
    /\ pc' = "text"
    /\ KeyFrame

\* line 114
ApplyMatchKey ==
    /\ pc = "text"
    /\ row' = Some([row[1] EXCEPT !.Match_Key = extract_match_key(row[1])])
    /\ pc' = "key"
    /\ KeyFrame

KeyNext == ApplyNumericKey \/ ApplyTextKey \/ ApplyMatchKey

KeySpec == KeyInit /\ [][KeyNext]_vars

-----------------------------------------------------------------------------
(* Claims about the key functions (KeySpec) *)

HasPrefix(s, p) == Len(p) <= Len(s) /\ SubSeq(s, 1, Len(p)) = p

\* the match key the row would get with net value n
KeyWithNet(n) == extract_match_key([row[1] EXCEPT !.Net_Value = n])

\* C5: the match key of a row is its numeric key verbatim when it has one,
\* whatever its text key and net value; otherwise, with a non-empty text key,
\* it is the text key, "_" and abs(net) at 2 decimals, so that another net
\* value gives the same key exactly when its absolute value is the same at 2
\* decimals (a deposit and a withdrawal of one amount share a key); otherwise
\* it is "NO_KEY_VALUE_" and the signed net at 2 decimals, so that another net
\* value gives the same key exactly when it has the same sign and the same
\* value at 2 decimals.
C5_MatchKeyBuilder ==
    pc = "key" =>
      LET r == row[1] IN
      /\ r.Match_Key_Ref # NaN => r.Match_Key = r.Match_Key_Ref[1]
      /\ (r.Match_Key_Ref = NaN /\ r.Match_Key_Text # "") =>
           /\ HasPrefix(r.Match_Key, r.Match_Key_Text \o "_")
           /\ \A n \in NetValues :
                (KeyWithNet(n) = r.Match_Key)
                  <=> (Round(Abs(n), Unit2) = Round(Abs(r.Net_Value), Unit2))
      /\ (r.Match_Key_Ref = NaN /\ r.Match_Key_Text = "") =>
           /\ HasPrefix(r.Match_Key, "NO_KEY_VALUE_")
           /\ \A n \in NetValues :
                (KeyWithNet(n) = r.Match_Key)
                  <=> (/\ Round(n, Unit2) = Round(r.Net_Value, Unit2)
                       /\ (n < 0) = (r.Net_Value < 0))
      /\ (r.Description = Some("rent") /\ r.Net_Value = -1250400) =>
           r.Match_Key = "RENT_12.5"
      /\ (r.Description = Some("for") /\ r.Net_Value = -1250400) =>
           r.Match_Key = "NO_KEY_VALUE_-12.5"

\* a withdrawal without numeric key has got its text key and the absolute
\* amount as match key
C5_Witness ==
    /\ pc = "key"
    /\ row[1].Match_Key_Ref = NaN
    /\ row[1].Match_Key_Text = "RENT"
    /\ row[1].Net_Value = -1250000
    /\ row[1].Match_Key = "RENT_12.5"

\* The tokens of a description, as a set: the substrings of the uppercased
\* text made of [A-Z0-9] only that cannot be extended on either side.
TokenSet(s) ==
    LET u == upper(s) IN
    {SubSeq(u, i, j) : <<i, j>> \in
        {p \in (1..Len(u)) \X (1..Len(u)) :
            /\ p[1] <= p[2]
            /\ \A k \in p[1]..p[2] : IsTokenChar(CharAt(u, k))
            /\ (p[1] = 1 \/ ~IsTokenChar(CharAt(u, p[1] - 1)))
            /\ (p[2] = Len(u) \/ ~IsTokenChar(CharAt(u, p[2] + 1)))}}

Survivors(d) ==
    IF isna(d) THEN {}
    ELSE {t \in TokenSet(d[1]) : t \notin stopwords /\ Len(t) > MinWordLen}

\* how many tokens of S sort before t
Rank(t, S) == Cardinality({u \in S : StrLess(u, t)})

\* the lexicographically first three tokens of S (fewer if fewer exist),
\* concatenated in order
FirstThreeJoined(S) ==
    LET n == Min(MaxKeywords, Cardinality(S)) IN
    join([i \in 1..n |-> CHOOSE t \in S : Rank(t, S) = i - 1])

Reverse(w) == [i \in 1..Len(w) |-> w[Len(w) + 1 - i]]

\* C7: the text key of a description is the concatenation, without separator,
\* of the first three (or fewer) of its distinct tokens in lexicographic
\* order, the tokens being the maximal [A-Z0-9] runs of the uppercased text
\* that are no stopword and longer than 2; it is empty when the description
\* is absent or no token survives; it is the same with the words in the
\* reverse order and with every word repeated; and
\* text_key("Office Rent Payment For March") = "MARCHOFFICERENT".
C7_TextKey ==
    pc = "text" =>
      LET r == row[1] IN
      /\ r.Match_Key_Text = FirstThreeJoined(Survivors(r.Description))
      /\ (r.Match_Key_Text = "") <=> (isna(r.Description) \/ Survivors(r.Description) = {})
      /\ ~isna(r.Description) =>
           /\ extract_text_key(Some(JoinWords(Reverse(r.words)))) = r.Match_Key_Text
           /\ extract_text_key(Some(JoinWords(r.words \o r.words))) = r.Match_Key_Text
      /\ extract_text_key(Some("Office Rent Payment For March")) = "MARCHOFFICERENT"

\* a description with four surviving tokens has been keyed with the first
\* three of them in lexicographic order
C7_Witness ==
    /\ pc = "text"
    /\ row[1].words = <<"rent", "Inv/Fee", "Office">>
    /\ row[1].Match_Key_Text = "FEEINVOFFICE"

-----------------------------------------------------------------------------
(* Claims about a run of the pipeline (Spec) *)

Range(rows) == {rows[i] : i \in DOMAIN rows}
Times(id, rows) == Cardinality({i \in DOMAIN rows : rows[i].idx = id})
MinOf(S) == CHOOSE x \in S : \A y \in S : x <= y
MaxOf(S) == CHOOSE x \in S : \A y \in S : x >= y

Body == df_transactions[1]
MatchedSheet == output[1].matched
UnmatchedSheet == output[1].unmatched
\* the rows of the unmatched sheet that are transactions, not balance rows
UnmatchedTransactions == SelectSeq(UnmatchedSheet, LAMBDA r : r.idx \in Idx(Body))
InMatched(r) == r.idx \in Idx(MatchedSheet)
InUnmatched(r) == r.idx \in Idx(UnmatchedSheet)

\* the body rows that share the match key of r
GroupOf(r) == SelectSeq(Body, LAMBDA x : x.Match_Key = r.Match_Key)
OthersOf(r) == SelectSeq(Body, LAMBDA x : x.Match_Key = r.Match_Key /\ x.idx # r.idx)

\* C1: when the table passes the column check, every row of the body is in
\* exactly one of the two sheets, once, and the matched rows and the
\* unmatched transaction rows are as many as the body rows; the only table
\* that passes the check and gets no sheets is one with an empty body.
C1_PartitionComplete ==
    /\ pc = "done" =>
         /\ \A i \in DOMAIN Body :
              Times(Body[i].idx, MatchedSheet) + Times(Body[i].idx, UnmatchedSheet) = 1
         /\ Len(MatchedSheet) + Len(UnmatchedTransactions) = Len(Body)
    /\ (pc = "error" /\ df # NaN /\ has_required_cols(df[1].columns)) =>
         df_transactions = Some(<<>>)

\* a run has put rows in both sheets
C1_Witness ==
    /\ pc = "done"
    /\ Len(MatchedSheet) = 2
    /\ Len(UnmatchedTransactions) = 1

KeyOfIdx(id) == (CHOOSE r \in Range(Body) : r.idx = id).Match_Key
NetOfKey(k) == SumNet(SelectSeq(Body, LAMBDA r : r.Match_Key = k))
MatchedKeysOut == {KeyOfIdx(r.idx) : r \in Range(MatchedSheet)}
UnmatchedKeysOut == {KeyOfIdx(r.idx) : r \in Range(UnmatchedTransactions)}

\* C2: the net values of the body rows that share a match key of the matched
\* sheet sum to zero at 4 decimals; those of a match key of the unmatched
\* transaction rows do not; no match key is in both sheets.
C2_ZeroSum ==
    pc = "done" =>
      /\ \A k \in MatchedKeysOut : Round(NetOfKey(k), Unit4) = 0
      /\ \A k \in UnmatchedKeysOut : Round(NetOfKey(k), Unit4) # 0
      /\ MatchedKeysOut \cap UnmatchedKeysOut = {}

\* a group whose sum is not zero but rounds to zero is matched beside a
\* group that is not
C2_Witness ==
    /\ pc = "done"
    /\ \E k \in MatchedKeysOut : NetOfKey(k) # 0
    /\ UnmatchedKeysOut # {}

Missing == RequiredSet \ uploaded_file[1].columns
NoRowProcessing ==
    /\ df_ob = NaN
    /\ df_cb = NaN
    /\ df_transactions = NaN
    /\ df_matched = NaN
    /\ df_unmatched = NaN
    /\ output = NaN

BalancePositions(rows) == {i \in DOMAIN rows : is_balance_row(rows[i])}

\* C4: after segmentation, without a balance row the opening and closing are
\* empty and the body is the whole table; otherwise the opening is the first
\* balance row, the closing the last one, and the body the rows at the
\* positions strictly between them, in input order.
C4_Segmenter ==
    pc = "keys" =>
      LET rows == df[1].rows
          B == BalancePositions(rows)
      IN  IF B = {}
          THEN /\ df_ob = Some(<<>>)
               /\ df_cb = Some(<<>>)
               /\ df_transactions = Some(rows)
          ELSE LET lo == MinOf(B)
                   hi == MaxOf(B)
               IN  /\ df_ob = Some(<<rows[lo]>>)
                   /\ df_cb = Some(<<rows[hi]>>)
                   /\ Len(Body) = (IF hi - lo > 1 THEN hi - lo - 1 ELSE 0)
                   /\ \A k \in DOMAIN Body : Body[k] = rows[lo + k]

\* a table of three balance rows has been segmented: the middle one is the body
C4_Witness ==
    /\ pc = "keys"
    /\ Len(df[1].rows) = 3
    /\ BalancePositions(df[1].rows) = {1, 2, 3}
    /\ Len(Body) = 1

SameTextAndAmount(r) ==
    {x \in Range(Body) : /\ x.Match_Key_Ref = NaN
                         /\ x.Match_Key_Text = r.Match_Key_Text
                         /\ Abs(x.Net_Value) = Abs(r.Net_Value)}

AllOrNothing(S) ==
    IF Cardinality({x \in S : x.Net_Value > 0}) = Cardinality({x \in S : x.Net_Value < 0})
    THEN \A x \in S : InMatched(x)
    ELSE \A x \in S : InUnmatched(x)

\* C9 as claimed: the body rows without numeric key that share one text key
\* and one non-zero absolute net value v are all matched when as many have
\* +v as -v, and all unmatched otherwise.
C9_SameAmountGroup ==
    pc = "done" =>
      \A r \in Range(Body) :
        (r.Match_Key_Ref = NaN /\ r.Match_Key_Text # "" /\ r.Net_Value # 0)
          => AllOrNothing(SameTextAndAmount(r))

\* C9 amended: the same, for a v of at least 0.0001 and when no other body
\* row without numeric key has the same text key and an absolute net value
\* that differs from v but is the same at 2 decimals.
C9_AllOrNothing ==
    pc = "done" =>
      \A r \in Range(Body) :
        (/\ r.Match_Key_Ref = NaN
         /\ r.Match_Key_Text # ""
         /\ Abs(r.Net_Value) >= Unit4
         /\ \A x \in Range(Body) :
              (/\ x.Match_Key_Ref = NaN
               /\ x.Match_Key_Text = r.Match_Key_Text
               /\ Round(Abs(x.Net_Value), Unit2) = Round(Abs(r.Net_Value), Unit2))
                => Abs(x.Net_Value) = Abs(r.Net_Value))
          => AllOrNothing(SameTextAndAmount(r))

\* +v, -v, +v under one text key: the three rows are unmatched
C9_Witness ==
    /\ pc = "done"
    /\ Len(Body) = 3
    /\ \A i \in DOMAIN Body : Body[i].Match_Key = "RENT_12.5"
    /\ <<Body[1].Net_Value, Body[2].Net_Value, Body[3].Net_Value>>
         = <<1250000, -1250000, 1250000>>
    /\ Len(UnmatchedTransactions) = 3

\* C10 as claimed: every body row with a zero net value and no numeric key is
\* in the matched sheet; a row alone in its group is matched exactly when
\* its net value is zero (at the 4 decimals of the grouping test).
C10_EveryZeroNetRow ==
    pc = "done" =>
      \A r \in Range(Body) :
        /\ (r.Net_Value = 0 /\ r.Match_Key_Ref = NaN) => InMatched(r)
        /\ Len(GroupOf(r)) = 1 => (InMatched(r) <=> Round(r.Net_Value, Unit4) = 0)

\* C10 amended: a body row with a zero net value and no numeric key is in the
\* matched sheet when the net values of the other rows that share its match
\* key sum to zero at 4 decimals, in particular when it is alone in its
\* group; a row alone in its group is matched exactly when its net value is
\* zero at 4 decimals.
C10_ZeroNetMatched ==
    pc = "done" =>
      \A r \in Range(Body) :
        /\ (/\ r.Net_Value = 0
            /\ r.Match_Key_Ref = NaN
            /\ Round(SumNet(OthersOf(r)), Unit4) = 0) => InMatched(r)
        /\ Len(GroupOf(r)) = 1 => (InMatched(r) <=> Round(r.Net_Value, Unit4) = 0)

\* a balance-only row between the opening and the closing row, alone in its
\* group, is in the matched sheet
C10_Witness ==
    /\ pc = "done"
    /\ Len(df_ob[1]) = 1
    /\ \E r \in Range(Body) :
         /\ \E x \in Range(df[1].rows) : x.idx = r.idx /\ is_balance_row(x)
         /\ Len(GroupOf(r)) = 1
         /\ InMatched(r)

====
